---- MODULE Spec2Model ----
(***************************************************************************)
(* PublicationCollector (src/publication-collector.js): an in-memory       *)
(* stand-in for a Meteor subscription.  It accumulates the documents a     *)
(* publish handler adds, changes and removes, and resolves the promise of  *)
(* collect() with a snapshot once the subscription is marked ready.        *)
(*                                                                         *)
(* JavaScript objects are modelled as finite functions from keys to        *)
(* values.  Documents are heap objects: _documents and every snapshot      *)
(* returned by _generateResponse hold REFERENCES to them (_.values copies  *)
(* references, not documents), so the heap is part of the state.           *)
(***************************************************************************)
EXTENDS Integers, Sequences, FiniteSets, TLC

\* ------------------------------------------------------------ bounds
\* number of document objects the run may allocate (calls of added)
MaxObjs == 2
\* number of collect() calls the requests are kept for (Spec makes one call per
\* collector)
MaxCalls == 2
\* number of stop listeners registered through onStop()
MaxOnStop == 1
\* length of the array a publish handler returns
MaxArray == 2

\* ------------------------------------------------------------ inputs
Colls == {"c1", "c2"}
Ids == {"i1", "i2"}
\* an argument that fails check(collection, String) / check(id, validMongoId)
BadArg == "notAStringOrId"
\* the JavaScript value undefined
UNDEF == "undefined"
FieldKeys == {"_id", "a"}
FieldVals == {"x", "y", UNDEF}

\* ------------------------------------------------------------ objects
EmptyObj == [k \in {} |-> k]

Restrict(obj, keys) == [k \in keys |-> obj[k]]

\* { [key]: value }
Single(key, value) == [k \in {key} |-> value]

\* _.extend(dst, src): every key of src is copied onto dst, undefined values too
Extend(dst, src) ==
  [k \in (DOMAIN dst) \cup (DOMAIN src) |-> IF k \in DOMAIN src THEN src[k] ELSE dst[k]]

\* _.omit(obj, key)
Omit(obj, key) == Restrict(obj, (DOMAIN obj) \ {key})

\* delete obj[key]
Delete(obj, key) == Restrict(obj, (DOMAIN obj) \ {key})

\* the field payloads handlers pass: every object over FieldKeys; an _id in a
\* payload is another value than the id, or undefined
Payloads ==
  {f \in UNION {[keys -> FieldVals] : keys \in SUBSET FieldKeys} :
     "_id" \in DOMAIN f => f["_id"] # "x"}

\* the (collection, id) arguments of a mutation call, two of them invalid
DocArgs == (Colls \X Ids) \cup {<<BadArg, "i1">>, <<"c1", BadArg>>}

\* ------------------------------------------------------------ state
VARIABLES
  documents,       \* this._documents: collection name -> id -> reference
  heap,            \* the document objects, by reference (1..Len(heap))
  delayInMs,       \* this.delayInMs (0 stands for undefined as well)
  readyListeners,  \* once('ready') listeners, in registration order, by call
  stopListeners,   \* once('stop') listeners pending, counted by registering call
  stopFired,       \* stop listeners that were invoked, counted by registering call
  req,             \* per collect() call: its promise, callback, timer, counters
  pc,              \* the synchronous section of collect() that is running, if any
  raised,          \* the error the latest call threw to its caller ("" for none)
  ref              \* the reference fold of the added/changed/removed calls

vars == <<documents, heap, delayInMs, readyListeners, stopListeners, stopFired,
          req, pc, raised, ref>>

Calls == 1..MaxCalls
\* 0 tags what is registered outside every synchronous section of collect()
Tags == 0..MaxCalls

\* ------------------------------------------------------------ accumulator
\* this._documents[collection] = this._documents[collection] || {}
_ensureCollectionInRes(docs, collection) ==
  IF collection \in DOMAIN docs THEN docs ELSE Extend(docs, Single(collection, EmptyObj))

\* _.extend({_id: id}, _.omit(fields, '_id'))
addedDocument(id, fields) == Extend(Single("_id", id), Omit(fields, "_id"))

\* added(): the new _documents and heap
addedState(docs, h, collection, id, fields) ==
  LET docs1 == _ensureCollectionInRes(docs, collection)
      r == Len(h) + 1
  IN [docs |-> [docs1 EXCEPT ![collection] = Extend(@, Single(id, r))],
      heap |-> Append(h, addedDocument(id, fields))]

\* the keys of fields whose value is undefined (_.forEach over fields, not fieldsNoId)
undefinedKeys(fields) == {key \in DOMAIN fields : fields[key] = UNDEF}

\* _.extend(existingDocument, fieldsNoId), then delete existingDocument[key]
changedDocument(existingDocument, fields) ==
  LET fieldsNoId == Omit(fields, "_id")
      merged == Extend(existingDocument, fieldsNoId)
  IN Restrict(merged, (DOMAIN merged) \ undefinedKeys(fields))

\* changed(): the new _documents and heap; the document is mutated in place
changedState(docs, h, collection, id, fields) ==
  LET docs1 == _ensureCollectionInRes(docs, collection)
  IN IF id \in DOMAIN docs1[collection]
       THEN [docs |-> docs1,
             heap |-> [h EXCEPT ![docs1[collection][id]] = changedDocument(@, fields)]]
       ELSE [docs |-> docs1, heap |-> h]

\* removed(): the new _documents
removedState(docs, collection, id) ==
  LET docs1 == _ensureCollectionInRes(docs, collection)
      docs2 == [docs1 EXCEPT ![collection] = Delete(@, id)]
  IN IF DOMAIN docs2[collection] = {} THEN Delete(docs2, collection) ELSE docs2

\* _generateResponse(): per collection the list _.values(documents), which holds
\* the document objects themselves; the order of the list is unspecified and the
\* list is modelled as the set of its elements
_generateResponse(docs) ==
  [collectionName \in DOMAIN docs |->
     {docs[collectionName][id] : id \in DOMAIN docs[collectionName]}]

\* what a snapshot object shows when read with heap h
SnapValue(snap, h) == [c \in DOMAIN snap |-> [r \in snap[c] |-> h[r]]]

\* check(collection, String); check(id, validMongoId)
validArgs(collection, id) == collection # BadArg /\ id # BadArg

\* ------------------------------------------------------------ reference fold
\* The semantics the specification gives for the mutation calls, on plain values:
\* collection -> id -> document, with no collection held empty.
RefAdded(m, collection, id, fields) ==
  LET m1 == IF collection \in DOMAIN m THEN m ELSE Extend(m, Single(collection, EmptyObj))
  IN [m1 EXCEPT ![collection] =
        Extend(@, Single(id, Extend(Single("_id", id), Omit(fields, "_id"))))]

RefChangedDoc(doc, fields) ==
  LET given == (DOMAIN fields) \ {"_id"}
      unset == {k \in given : fields[k] = UNDEF}
  IN [k \in ((DOMAIN doc) \cup given) \ unset |->
        IF k \in given THEN fields[k] ELSE doc[k]]

RefChanged(m, collection, id, fields) ==
  IF collection \in DOMAIN m /\ id \in DOMAIN m[collection]
    THEN [m EXCEPT ![collection][id] = RefChangedDoc(@, fields)]
    ELSE m

RefRemoved(m, collection, id) ==
  IF collection \in DOMAIN m /\ id \in DOMAIN m[collection]
    THEN IF DOMAIN m[collection] = {id}
           THEN Restrict(m, (DOMAIN m) \ {collection})
           ELSE [m EXCEPT ![collection] = Restrict(@, (DOMAIN @) \ {id})]
    ELSE m

\* the snapshot of the reference fold: per collection the set of its documents
RefSnapshot(m) == [c \in DOMAIN m |-> {m[c][id] : id \in DOMAIN m[c]}]

\* ------------------------------------------------------------ lifecycle
\* The emitter and the requests, as one record the synchronous call chain
\* ready() -> listener -> completeCollecting -> done -> stop() threads through.
\* threw: the exception that is propagating out of the chain ("" for none);
\* raised: the exception that reached the caller of the operation.
Life == [req |-> req, readyListeners |-> readyListeners,
         stopListeners |-> stopListeners, stopFired |-> stopFired,
         threw |-> "", raised |-> ""]

NoValue == [none |-> {}]

NewRequest(callback) ==
  [promise |-> "pending",     \* none (no such call yet), pending, resolved, rejected
   collections |-> NoValue,   \* the collections variable of the ready listener
   value |-> NoValue,         \* the snapshot object the promise resolved with
   reason |-> "",             \* the error the promise rejected with
   callback |-> callback,     \* none, ok (returns), throws
   callbackCalls |-> 0,       \* invocations of the completion callback
   resolveCalls |-> 0,        \* invocations of resolve()
   timer |-> "none",          \* none, armed, fired
   timers |-> 0,              \* Meteor.setTimeout calls
   stops |-> 0,               \* stop() calls made by completeCollecting
   stopsSeen |-> 0,           \* stop events emitted since the call began
   earlyStop |-> FALSE,       \* a stop event was emitted before resolve() ran
   lateMutation |-> FALSE,    \* added/changed/removed ran while the timer was armed
   thrown |-> "",             \* the error _publishHandlerResult passed to this.error
   begun |-> 0,               \* _publishCursor calls made for the returned cursors
   phrReady |-> 0]            \* ready() calls made by _publishHandlerResult

NoRequest == [NewRequest("none") EXCEPT !.promise = "none"]

\* stop(): this.emit('stop') invokes every once('stop') listener and removes it
emitStop(L) ==
  [L EXCEPT !.stopFired = [t \in Tags |-> @[t] + L.stopListeners[t]],
            !.stopListeners = [t \in Tags |-> 0],
            !.req = [k \in Calls |->
                       IF L.req[k].promise = "none" THEN L.req[k]
                       ELSE [L.req[k] EXCEPT
                               !.stopsSeen = IF @ < 2 THEN @ + 1 ELSE @,
                               !.earlyStop = @ \/ L.req[k].resolveCalls = 0]]]

\* resolve(...res): settles the promise unless it is settled already
resolve(L, k, collections) ==
  [L EXCEPT !.req[k].resolveCalls = @ + 1,
            !.req[k].promise = IF @ = "pending" THEN "resolved" ELSE @,
            !.req[k].value = IF L.req[k].promise = "pending" THEN collections ELSE @]

\* done(...res): callback && callback(...res); resolve(...res)
done(L, k, collections) ==
  IF L.req[k].callback = "none" THEN resolve(L, k, collections)
  ELSE LET L1 == [L EXCEPT !.req[k].callbackCalls = @ + 1]
       IN IF L.req[k].callback = "throws"
            THEN [L1 EXCEPT !.threw = "callbackError"]
            ELSE resolve(L1, k, collections)

\* done(collections); this.stop() with no try/finally: a throwing callback
\* skips the stop
completeCollectingNoFinally(L, k, collections) ==
  LET L1 == done(L, k, collections)
  IN IF L1.threw # "" THEN L1 ELSE emitStop([L1 EXCEPT !.req[k].stops = @ + 1])

\* completeCollecting(collections): try { done(collections) } finally { this.stop() }
completeCollecting(L, k, collections) ==
  LET L1 == done(L, k, collections)
  IN emitStop([L1 EXCEPT !.req[k].stops = @ + 1])

\* Meteor.setTimeout(..., this.delayInMs)
setTimeout(L, k) ==
  [L EXCEPT !.req[k].timer = "armed", !.req[k].timers = @ + 1]

\* a ready listener that goes through Meteor.setTimeout whatever delayInMs is
readyListenerAlwaysDelays(L, k, collections) ==
  setTimeout([L EXCEPT !.req[k].collections = collections], k)

\* the listener collect() registers with this.once('ready', ...)
readyListener(L, k, collections) ==
  LET L1 == [L EXCEPT !.req[k].collections = collections]
  IN IF delayInMs # 0 THEN setTimeout(L1, k) ELSE completeCollecting(L1, k, collections)

\* a listener registered with on() instead of once(): it stays registered
onceKept(listeners, k) == listeners

\* this.once('ready', ...): the listener is removed before it is invoked
once(listeners, k) == SelectSeq(listeners, LAMBDA j : j # k)

\* this.emit('ready', collections): the listeners registered when emit begins
\* run in order, each removed before it runs; an exception ends the emit
RECURSIVE emitReady(_, _, _)
emitReady(L, listeners, collections) ==
  IF listeners = <<>> \/ L.threw # "" THEN L
  ELSE LET k == Head(listeners)
           L1 == [L EXCEPT !.readyListeners = once(@, k)]
       IN emitReady(readyListener(L1, k, collections), Tail(listeners), collections)

\* a promise executor that throws rejects its promise, unless it is settled
reject(L, k, reason) ==
  [L EXCEPT !.req[k].promise = IF @ = "pending" THEN "rejected" ELSE @,
            !.req[k].reason = IF L.req[k].promise = "pending" THEN reason ELSE @,
            !.threw = ""]

\* ------------------------------------------------------------ call stack
Idle == [call |-> 0, at |-> "idle", rest |-> <<>>]

\* Where an exception raised under the running code ends.  Outside collect()
\* (a timer, an observer callback) nothing of the collector is involved.  Inside
\* the handler or a _publishCursor the calling code may catch it (caught);
\* otherwise it reaches the promise executor of the running collect() (through
\* the catch and this.error(e) of _publishHandlerResult when a cursor is being
\* published), which rejects the promise.
unwind(L, caught) ==
  IF L.threw = "" THEN [life |-> L, pc |-> pc]
  ELSE IF pc.at = "idle" \/ caught
         THEN [life |-> [L EXCEPT !.threw = "", !.raised = L.threw], pc |-> pc]
         ELSE [life |-> reject(IF pc.at = "cursor"
                                 THEN [L EXCEPT !.req[pc.call].thrown = L.threw]
                                 ELSE L,
                               pc.call, L.threw),
               pc |-> Idle]

\* the lifecycle variables after the operation
commit(L, nextPc) ==
  /\ req' = L.req
  /\ readyListeners' = L.readyListeners
  /\ stopListeners' = L.stopListeners
  /\ stopFired' = L.stopFired
  /\ raised' = L.raised
  /\ pc' = nextPc

finish(L, caught) ==
  /\ (L.threw = "" => caught)
  /\ LET u == unwind(L, caught) IN commit(u.life, u.pc)

\* ------------------------------------------------------------ operations
Init ==
  /\ documents = EmptyObj
  /\ heap = <<>>
  /\ delayInMs \in {0, 10}
  /\ readyListeners = <<>>
  /\ stopListeners = [t \in Tags |-> 0]
  /\ stopFired = [t \in Tags |-> 0]
  /\ req = [k \in Calls |-> NoRequest]
  /\ pc = Idle
  /\ raised = ""
  /\ ref = EmptyObj

\* the lifecycle record after a mutation call went through
mutated ==
  [Life EXCEPT !.req = [k \in Calls |->
     [req[k] EXCEPT !.lateMutation = @ \/ req[k].timer = "armed"]]]

\* added(collection, id, fields)
added(collection, id, fields, caught) ==
  /\ IF validArgs(collection, id)
       THEN /\ Len(heap) < MaxObjs
            /\ LET st == addedState(documents, heap, collection, id, fields)
               IN documents' = st.docs /\ heap' = st.heap
            /\ ref' = RefAdded(ref, collection, id, fields)
            /\ finish(mutated, caught)
       ELSE /\ finish([Life EXCEPT !.threw = "matchError"], caught)
            /\ UNCHANGED <<documents, heap, ref>>
  /\ UNCHANGED delayInMs

\* changed with the check of its arguments made after _ensureCollectionInRes
changedChecksLate(collection, id, fields, caught) ==
  /\ IF validArgs(collection, id)
       THEN /\ LET st == changedState(documents, heap, collection, id, fields)
               IN documents' = st.docs /\ heap' = st.heap
            /\ ref' = RefChanged(ref, collection, id, fields)
            /\ finish(mutated, caught)
       ELSE /\ documents' = IF collection \in Colls
                              THEN _ensureCollectionInRes(documents, collection)
                              ELSE documents
            /\ finish([Life EXCEPT !.threw = "matchError"], caught)
            /\ UNCHANGED <<heap, ref>>
  /\ UNCHANGED delayInMs

\* changed(collection, id, fields)
changed(collection, id, fields, caught) ==
  /\ IF validArgs(collection, id)
       THEN /\ LET st == changedState(documents, heap, collection, id, fields)
               IN documents' = st.docs /\ heap' = st.heap
            /\ ref' = RefChanged(ref, collection, id, fields)
            /\ finish(mutated, caught)
       ELSE /\ finish([Life EXCEPT !.threw = "matchError"], caught)
            /\ UNCHANGED <<documents, heap, ref>>
  /\ UNCHANGED delayInMs

\* removed(collection, id)
removed(collection, id, caught) ==
  /\ IF validArgs(collection, id)
       THEN /\ documents' = removedState(documents, collection, id)
            /\ ref' = RefRemoved(ref, collection, id)
            /\ finish(mutated, caught)
       ELSE /\ finish([Life EXCEPT !.threw = "matchError"], caught)
            /\ UNCHANGED <<documents, ref>>
  /\ UNCHANGED <<heap, delayInMs>>

\* ready(): this.emit('ready', this._generateResponse())
ready(caught) ==
  /\ finish(emitReady(Life, readyListeners, _generateResponse(documents)), caught)
  /\ UNCHANGED <<documents, heap, delayInMs, ref>>

\* the stop listeners registered so far
RECURSIVE sumTo(_, _)
sumTo(f, n) == IF n < 0 THEN 0 ELSE f[n] + sumTo(f, n - 1)
registeredStops == sumTo(stopListeners, MaxCalls) + sumTo(stopFired, MaxCalls)

\* onStop(callback): this.once('stop', callback)
onStop ==
  /\ registeredStops < MaxOnStop
  /\ commit([Life EXCEPT !.stopListeners[pc.call] = @ + 1], pc)
  /\ UNCHANGED <<documents, heap, delayInMs, ref>>

\* stop(): this.emit('stop')
stop ==
  /\ commit(emitStop(Life), pc)
  /\ UNCHANGED <<documents, heap, delayInMs, ref>>

\* handler.call(this, ...args) throws
handlerThrows ==
  /\ pc.at = "handler"
  /\ commit(reject(Life, pc.call, "handlerError"), Idle)
  /\ UNCHANGED <<documents, heap, delayInMs, ref>>

\* collect(name, ...args): the lookup of the handler, the promise, the ready
\* listener; the handler then runs (pc.at = "handler") until it returns or throws
Callbacks == {"none", "ok", "throws"}

\* collect with the lookup of the handler made inside the promise executor,
\* after the ready listener was registered
collectLateLookup(name, callback) ==
  /\ pc.at = "idle"
  /\ \E k \in Calls :
       /\ req[k].promise = "none"
       /\ \A j \in Calls : j < k => req[j].promise # "none"
       /\ LET L == [Life EXCEPT !.req[k] = NewRequest(callback),
                                !.readyListeners = Append(@, k)]
          IN IF name = "unknown"
               THEN commit(reject(L, k, "unknownPublication"), pc)
               ELSE commit(L, [call |-> k, at |-> "handler", rest |-> <<>>])
  /\ UNCHANGED <<documents, heap, delayInMs, ref>>

collect(name, callback) ==
  /\ pc.at = "idle"
  /\ \E k \in Calls :
       /\ req[k].promise = "none"
       /\ \A j \in Calls : j < k => req[j].promise # "none"
       /\ IF name = "unknown"
            THEN commit([Life EXCEPT !.raised = "unknownPublication"], pc)
            ELSE commit([Life EXCEPT !.req[k] = NewRequest(callback),
                                     !.readyListeners = Append(@, k)],
                        [call |-> k, at |-> "handler", rest |-> <<>>])
  /\ UNCHANGED <<documents, heap, delayInMs, ref>>

\* what a publish handler returns: nothing (or another falsy value), a truthy
\* value that is no cursor and no array, a cursor, or an array whose elements
\* are cursors (given by their collection name) or something else
NotCursor == "notACursor"
Arrays == UNION {[1..n -> Colls \cup {NotCursor}] : n \in 0..MaxArray}
Results ==
  {[kind |-> "undefined", elems |-> <<>>], [kind |-> "other", elems |-> <<>>]}
  \cup {[kind |-> "cursor", elems |-> <<c>>] : c \in Colls}
  \cup {[kind |-> "array", elems |-> a] : a \in Arrays}

\* res.reduce((valid, cur) => valid && this._isCursor(cur), true)
areCursors(elems) == \A i \in DOMAIN elems : elems[i] # NotCursor

\* the loop over res that fills collectionNames finds a name twice
hasDuplicate(elems) ==
  \E i, j \in DOMAIN elems : i < j /\ elems[i] = elems[j]

\* the error _publishHandlerResult raises for res ("" for none)
resultError(res) ==
  IF res.kind = "array" /\ ~areCursors(res.elems) THEN "nonCursorArray"
  ELSE IF res.kind = "array" /\ hasDuplicate(res.elems) THEN "duplicateCollection"
  ELSE IF res.kind = "other" THEN "invalidPublishResult"
  ELSE ""

\* _publishHandlerResult returns without its closing ready() call
readyAfterCursorsSkipped(k) == commit(Life, Idle)

\* the ready() call that ends _publishHandlerResult; an exception it lets out
\* has no handler below the promise executor
readyAfterCursors(k) ==
  LET collections == _generateResponse(documents)
      L == emitReady([Life EXCEPT !.req[k].phrReady = @ + 1], readyListeners, collections)
  IN commit(IF L.threw = "" THEN L ELSE reject(L, k, L.threw), Idle)

\* this._ensureCollectionInRes(cur._getCollectionName()); cur._publishCursor(this)
beginCursor(k, cursors) ==
  /\ documents' = _ensureCollectionInRes(documents, Head(cursors))
  /\ commit([Life EXCEPT !.req[k].begun = @ + 1],
            [call |-> k, at |-> "cursor", rest |-> Tail(cursors)])

\* _publishHandlerResult(res), up to the first _publishCursor call
_publishHandlerResult(res) ==
  /\ pc.at = "handler"
  /\ LET k == pc.call
         err == resultError(res)
     IN IF err # ""
          THEN /\ commit(reject([Life EXCEPT !.req[k].thrown = err], k, err), Idle)
               /\ UNCHANGED documents
          ELSE IF Len(res.elems) > 0
                 THEN beginCursor(k, res.elems)
                 ELSE IF res.kind = "array"
                        THEN readyAfterCursors(k) /\ UNCHANGED documents
                        ELSE commit(Life, Idle) /\ UNCHANGED documents
  /\ UNCHANGED <<heap, delayInMs, ref>>

\* the running cur._publishCursor(this) returns: the next cursor, or ready()
cursorReturns ==
  /\ pc.at = "cursor"
  /\ IF pc.rest # <<>>
       THEN beginCursor(pc.call, pc.rest)
       ELSE readyAfterCursors(pc.call) /\ UNCHANGED documents
  /\ UNCHANGED <<heap, delayInMs, ref>>

\* the catch block of the cursor loop without its return: ready() follows
cursorThrowsThenReady ==
  /\ pc.at = "cursor"
  /\ LET k == pc.call
         L == emitReady([Life EXCEPT !.req[k].thrown = "cursorError",
                                     !.req[k].phrReady = @ + 1],
                        readyListeners, _generateResponse(documents))
     IN commit(reject(L, k, "cursorError"), Idle)
  /\ UNCHANGED <<documents, heap, delayInMs, ref>>

\* the running cur._publishCursor(this) throws: catch (e) { this.error(e) }
cursorThrows ==
  /\ pc.at = "cursor"
  /\ commit(reject([Life EXCEPT !.req[pc.call].thrown = "cursorError"],
                   pc.call, "cursorError"), Idle)
  /\ UNCHANGED <<documents, heap, delayInMs, ref>>

\* the timer completes with the snapshot its ready listener was given
regeneratedStale(k) == req[k].collections

\* collections = this._generateResponse(): "collections is out of date"
regenerated(k) == _generateResponse(documents)

\* the function given to Meteor.setTimeout runs
timerFires(k) ==
  /\ pc.at = "idle"
  /\ req[k].timer = "armed"
  /\ LET collections == regenerated(k)
         L == completeCollecting([Life EXCEPT !.req[k].timer = "fired",
                                              !.req[k].collections = collections],
                                 k, collections)
     IN commit(unwind(L, FALSE).life, pc)
  /\ UNCHANGED <<documents, heap, delayInMs, ref>>

\* no collect() call was made on the collector yet
freshCollector == \A k \in Calls : req[k].promise = "none"

\* The life of a collector that serves one collect() call (a new collector per
\* call is the documented use): what the handler, the cursors, the observers and
\* the timer do, with the mutation calls drawn from a small set of arguments.
LifeColls == {"c1"}
LifeIds == {"i1"}
LifeAdded == {[a |-> "x"]}
LifeChanged == {[a |-> "x"], [a |-> UNDEF]}

Next ==
  \/ \E c \in LifeColls, id \in LifeIds, f \in LifeAdded : added(c, id, f, TRUE)
  \/ \E c \in LifeColls, id \in LifeIds, f \in LifeChanged : changed(c, id, f, TRUE)
  \/ \E c \in LifeColls, id \in LifeIds : removed(c, id, TRUE)
  \/ \E caught \in BOOLEAN : ready(caught)
  \/ onStop
  \/ stop
  \/ \E name \in {"known", "unknown"}, cb \in Callbacks :
       freshCollector /\ collect(name, cb)
  \/ handlerThrows
  \/ \E res \in Results : _publishHandlerResult(res)
  \/ cursorReturns
  \/ cursorThrows
  \/ \E k \in Calls : timerFires(k)

Spec == Init /\ [][Next]_vars

\* The accumulator alone: every mutation call with every argument and payload,
\* on a collector no collect() call is made on.
NextDocs ==
  \/ \E a \in DocArgs, f \in Payloads : added(a[1], a[2], f, TRUE)
  \/ \E a \in DocArgs, f \in Payloads : changed(a[1], a[2], f, TRUE)
  \/ \E a \in DocArgs : removed(a[1], a[2], TRUE)

SpecDocs == Init /\ [][NextDocs]_vars

\* The argument checks of the mutation calls: every call with every argument
\* pair, valid or not; the payload plays no part in the checks.
ArgPayloads == LifeAdded \cup LifeChanged

NextArgs ==
  \/ \E a \in DocArgs, f \in ArgPayloads : added(a[1], a[2], f, TRUE)
  \/ \E a \in DocArgs, f \in ArgPayloads : changed(a[1], a[2], f, TRUE)
  \/ \E a \in DocArgs : removed(a[1], a[2], TRUE)

SpecArgs == Init /\ [][NextArgs]_vars

\* The lifecycle of one collect() call under the scheduling the runtime gives:
\* the synchronous section runs to its end (the handler returns or throws, a
\* running _publishCursor returns or throws), and an armed timer fires. Whether
\* anybody calls ready() is up to the handler and its sources.
NextLive ==
  \/ \E c \in LifeColls, id \in LifeIds, f \in LifeAdded : added(c, id, f, TRUE)
  \/ \E caught \in BOOLEAN : ready(caught)
  \/ stop
  \/ \E cb \in Callbacks : freshCollector /\ collect("known", cb)
  \/ handlerThrows
  \/ \E res \in Results : _publishHandlerResult(res)
  \/ cursorReturns
  \/ cursorThrows
  \/ \E k \in Calls : timerFires(k)

Fairness ==
  /\ WF_vars(handlerThrows \/ \E res \in Results : _publishHandlerResult(res))
  /\ WF_vars(cursorReturns \/ cursorThrows)
  /\ \A k \in Calls : WF_vars(timerFires(k))

FairSpec == Init /\ [][NextLive]_vars /\ Fairness

\* One collector on which collect() is called more than once: the calls share
\* _documents and the listeners of the emitter. Handlers add their documents in
\* their synchronous section.
NextReuse ==
  \/ \E c \in LifeColls, id \in LifeIds, f \in LifeAdded :
       pc.at # "idle" /\ added(c, id, f, TRUE)
  \/ \E caught \in BOOLEAN : ready(caught)
  \/ \E cb \in Callbacks : collect("known", cb)
  \/ handlerThrows
  \/ \E res \in Results : _publishHandlerResult(res)
  \/ cursorReturns
  \/ cursorThrows
  \/ \E k \in Calls : timerFires(k)

SpecReuse == Init /\ [][NextReuse]_vars

\* ------------------------------------------------------------ claims
\* what a snapshot shows, per collection, as the set of its documents
SnapDocs(snap, h) == [c \in DOMAIN snap |-> {h[r] : r \in snap[c]}]

\* the document stored at (collection, id), if any
hasDocument(collection, id) ==
  collection \in DOMAIN documents /\ id \in DOMAIN documents[collection]

\* C1: after every sequence of valid added/changed/removed calls the snapshot
\* _generateResponse produces equals the left-to-right reference fold of the
\* sequence: same collections, and per collection the same documents.
C1_SnapshotIsFold ==
  SnapDocs(_generateResponse(documents), heap) = RefSnapshot(ref)

\* C2: a collection name present in _documents holds at least one document.
C2_NoEmptyCollection ==
  \A c \in DOMAIN documents : DOMAIN documents[c] # {}

\* C3: a changed() call for a (collection, id) that holds no document leaves the
\* snapshot as it was: the same collection keys and the same documents.
C3_ChangedMissingIsNoOp ==
  [][\A a \in Colls \X Ids, f \in Payloads :
       (~hasDocument(a[1], a[2]) /\ changed(a[1], a[2], f, TRUE))
         => SnapDocs(_generateResponse(documents'), heap')
              = SnapDocs(_generateResponse(documents), heap)]_vars

\* C4: every stored document carries an _id field equal to the id it is stored
\* under, whatever payloads added and changed were given.
C4_IdKept ==
  \A c \in DOMAIN documents : \A id \in DOMAIN documents[c] :
    LET doc == heap[documents[c][id]]
    IN "_id" \in DOMAIN doc /\ doc["_id"] = id

\* C5: a snapshot _generateResponse returned (the collections the ready listener
\* was given, which is also what collect resolves with) is a value: while the
\* listener holds the same snapshot, no step changes what it shows.
C5_SnapshotIsValue ==
  [][\A k \in Calls :
       (req[k].collections # NoValue /\ req'[k].collections = req[k].collections)
         => SnapValue(req[k].collections, heap') = SnapValue(req[k].collections, heap)]_vars

\* C6: with a non-zero delayInMs the request resolves in the timer's step only,
\* with the snapshot of the accumulator as it is when the timer fires, so with
\* every mutation made between ready() and the timer.
C6_ResolvesWithStateAtTimer ==
  [][\A k \in Calls :
       (delayInMs # 0 /\ req[k].promise = "pending" /\ req'[k].promise = "resolved")
         => /\ req[k].timer = "armed" /\ req'[k].timer = "fired"
            /\ req'[k].value = _generateResponse(documents')
            /\ SnapDocs(req'[k].value, heap')
                 = SnapDocs(_generateResponse(documents), heap)]_vars

\* C6 witness: a request resolved by the timer after a mutation call that ran
\* while the timer was armed.
C6_Witness ==
  \E k \in Calls :
    /\ delayInMs # 0 /\ req[k].promise = "resolved" /\ req[k].timer = "fired"
    /\ req[k].lateMutation
    /\ \E c \in DOMAIN req[k].value : req[k].value[c] # {}

\* C7: once the request is resolved, no added, changed or removed call changes
\* what the snapshot the caller received shows.
C7_SettledSnapshotFrozen ==
  [][\A k \in Calls :
       (req[k].promise = "resolved" /\ req'[k].value = req[k].value)
         => SnapValue(req[k].value, heap') = SnapValue(req[k].value, heap)]_vars

\* C8: whatever number of ready() calls are made, with or without a delay, the
\* request of a collect call is resolved at most once, its completion callback
\* is invoked at most once and at most one timer is scheduled for it.
C8_SettledOnce ==
  \A k \in Calls :
    /\ req[k].resolveCalls <= 1
    /\ req[k].callbackCalls <= 1
    /\ req[k].timers <= 1
    /\ (req[k].timers = 1 => delayInMs # 0)
    /\ (req[k].promise = "resolved" => req[k].resolveCalls = 1)

\* C8 witness: the handler's own ready() resolved the request before the cursor
\* for c2 was published (the snapshot lacks c2), and the ready() call of
\* _publishHandlerResult came after it: two ready() calls, one resolution.
C8_Witness ==
  \E k \in Calls :
    /\ req[k].promise = "resolved" /\ req[k].resolveCalls = 1
    /\ req[k].callbackCalls = 1
    /\ req[k].phrReady = 1
    /\ "c2" \in DOMAIN documents /\ "c2" \notin DOMAIN req[k].value

\* C9 as stated: for a collect call that resolved, the stop event was emitted
\* exactly once, and not before resolve() ran.
C9_StopOnceAfterResolve ==
  \A k \in Calls :
    req[k].promise = "resolved" => (req[k].stopsSeen = 1 /\ ~req[k].earlyStop)

\* C9 amended: collect itself calls stop() at most once per call, and exactly in
\* the run of completeCollecting: it has stopped if and only if the completion
\* callback or resolve() ran, also when the callback threw (resolve() is then
\* skipped and the stop still made).  The stop of a resolved call comes after
\* resolve(): when it is the only stop event the call saw, none came before
\* resolve() ran.
C9_OwnStopWithDone ==
  \A k \in Calls :
    /\ req[k].stops <= 1
    /\ (req[k].stops = 1 <=> (req[k].callbackCalls = 1 \/ req[k].resolveCalls = 1))
    /\ (req[k].stops = 1 => req[k].stopsSeen >= 1)
    /\ (req[k].promise = "resolved" => req[k].stops = 1)
    /\ (req[k].promise = "resolved" /\ req[k].stopsSeen = 1 => ~req[k].earlyStop)

\* C9 witness: a resolved call whose stop by completeCollecting followed an
\* earlier stop() made by the handler or a source.
C9_Witness ==
  \E k \in Calls :
    /\ req[k].promise = "resolved" /\ req[k].stops = 1
    /\ req[k].stopsSeen = 2 /\ req[k].earlyStop

\* C10: a handler that returned two cursors for one collection makes the
\* collect call fail with the duplicate-collection error, and none of the
\* cursors is published.
C10_DuplicateAlwaysFails ==
  \A k \in Calls :
    req[k].thrown = "duplicateCollection"
      => /\ req[k].promise = "rejected"
         /\ req[k].reason = "duplicateCollection"
         /\ req[k].begun = 0

\* C11: a handler that returned a truthy value that is neither a cursor nor an
\* array makes the collect call fail with the invalid-publish-result error: the
\* request is rejected with it and never resolved, whatever the handler did
\* before it returned.
C11_InvalidResultAlwaysFails ==
  \A k \in Calls :
    req[k].thrown = "invalidPublishResult"
      => /\ req[k].promise = "rejected"
         /\ req[k].reason = "invalidPublishResult"
         /\ req[k].resolveCalls = 0

C13_CallsAreIndependent ==
  [][/\ \A k \in Calls :
          pc.call \notin {0, k}
            => /\ req'[k].promise = req[k].promise
               /\ req'[k].timer = req[k].timer
               /\ req'[k].callbackCalls = req[k].callbackCalls
     /\ \A j, k \in Calls :
          (j # k /\ req'[j].promise = "resolved" /\ req'[k].promise = "resolved")
            => \A c \in DOMAIN req'[j].value \cap DOMAIN req'[k].value :
                 req'[j].value[c] \cap req'[k].value[c] = {}
    ]_vars

\* C14: collect with a name no handler is registered under throws the
\* unknown-publication error to its caller and does nothing else: no handler
\* runs, no ready listener is registered, no request is created, and the
\* documents are as they were.
C14_UnknownThrowsFirst ==
  [][\A cb \in Callbacks :
       collect("unknown", cb)
         => /\ raised' = "unknownPublication"
            /\ pc' = Idle
            /\ UNCHANGED <<documents, heap, readyListeners, stopListeners,
                           stopFired, req>>
    ]_vars

\* collect threw the unknown-publication error on a collector holding documents
C14_Witness ==
  /\ raised = "unknownPublication"
  /\ documents # EmptyObj
  /\ readyListeners = <<>>
  /\ freshCollector

\* the collection holds no document (it is absent, or present and empty)
holdsNoDocument(collection) ==
  collection \in DOMAIN documents => DOMAIN documents[collection] = {}

\* C15: removed on the only document of a collection leaves the collection
\* absent, not present and empty; and on a collection holding no document,
\* added followed by removed of the same (collection, id) gives back the
\* snapshot the collector had before the added.
C15_AddedRemovedRoundTrip ==
  \A collection \in Colls, id \in Ids :
    /\ (hasDocument(collection, id) /\ DOMAIN documents[collection] = {id})
         => collection \notin DOMAIN removedState(documents, collection, id)
    /\ \A fields \in Payloads :
         holdsNoDocument(collection)
           => LET st == addedState(documents, heap, collection, id, fields)
                  back == removedState(st.docs, collection, id)
              IN SnapDocs(_generateResponse(back), st.heap)
                   = SnapDocs(_generateResponse(documents), heap)

\* the arguments a mutation call refuses
BadDocArgs == {a \in DocArgs : ~validArgs(a[1], a[2])}

\* C16: added, changed and removed called with a collection that is no string
\* or with an invalid id throw the argument error to their caller and leave
\* the documents as they were.
C16_BadArgumentsRefused ==
  [][\A a \in BadDocArgs :
       (\/ \E f \in ArgPayloads : added(a[1], a[2], f, TRUE)
        \/ \E f \in ArgPayloads : changed(a[1], a[2], f, TRUE)
        \/ removed(a[1], a[2], TRUE))
         => /\ raised' = "matchError"
            /\ UNCHANGED <<documents, heap>>
    ]_vars

\* a mutation call was refused on a collector that holds a document
C16_Witness ==
  /\ raised = "matchError"
  /\ \E collection \in Colls, id \in Ids : hasDocument(collection, id)

\* C17: _publishHandlerResult calls ready() at most once, in the step in which
\* the _publishCursor of the last cursor returned (or at once for an empty
\* array), and it does call it then; when it raised an error (an invalid
\* result, a throwing _publishCursor) it has not called ready().
C17_ReadyOnceAfterCursors ==
  [][\A k \in Calls :
       /\ req'[k].phrReady <= 1
       /\ req'[k].thrown # "" => req'[k].phrReady = 0
       /\ req'[k].phrReady # req[k].phrReady
            => /\ pc.call = k
               /\ pc' = Idle
               /\ \/ pc.at = "cursor" /\ pc.rest = <<>> /\ req[k].begun > 0
                  \/ pc.at = "handler" /\ req[k].begun = 0
       /\ (pc.call = k /\ pc.at = "cursor" /\ pc.rest = <<>> /\ cursorReturns)
            => req'[k].phrReady = 1
       /\ (pc.call = k /\ _publishHandlerResult([kind |-> "array", elems |-> <<>>]))
            => req'[k].phrReady = 1
    ]_vars

\* two cursors were published and ready() was called after the second
C17_Witness ==
  \E k \in Calls :
    /\ req[k].begun = 2
    /\ req[k].phrReady = 1
    /\ req[k].promise = "resolved"

\* the ready listener of call k is registered
listening(listeners, k) == \E i \in DOMAIN listeners : listeners[i] = k

\* the step runs the ready listener of call k while its request is pending
firstReady(k) ==
  /\ req[k].promise = "pending"
  /\ listening(readyListeners, k)
  /\ ~listening(readyListeners', k)

C19_StopListenersInvoked ==
  \A k \in Calls :
    (/\ pc.call # k
     /\ req[k].begun > 0 /\ req[k].phrReady = 1
     /\ req[k].promise = "resolved" /\ req[k].stops = 1)
      => stopListeners[k] = 0

\* the errors _publishHandlerResult raises
FatalErrors ==
  {"nonCursorArray", "duplicateCollection", "invalidPublishResult", "cursorError"}

\* C20: a collect call that failed with a fatal error of _publishHandlerResult
\* has no completion, also when an earlier ready() had scheduled its delay
\* timer: its callback was never invoked with a snapshot, resolve was never
\* called for it, and collect emitted no stop for it.
C20_FailureExcludesCompletion ==
  \A k \in Calls :
    (/\ req[k].promise = "rejected" /\ req[k].reason \in FatalErrors
     /\ req[k].timer # "none")
      => /\ req[k].callbackCalls = 0
         /\ req[k].resolveCalls = 0
         /\ req[k].stops = 0

====
